---- MODULE Spec2Model ----
(***************************************************************************)
(* Model of src/src/main.rs: a batch of transfers.  main pairs sender      *)
(* secrets with recipient strings, spawns one tokio task per pair whose    *)
(* recipient parses, joins every handle and then prints one line per       *)
(* TransactionResult collected in the shared Arc<Mutex<Vec<_>>>.           *)
(***************************************************************************)
EXTENDS Integers, Sequences, FiniteSets, TLC

(* ---------------------------------------------------------------------- *)
(* Bounds of the model                                                     *)
(* ---------------------------------------------------------------------- *)
\* longest sender_wallets / recipient_wallets list that is explored
MaxLen == 2
\* longest time (in clock units) between start_time and the return of the
\* last remote call of a task
MaxElapsed == 1

(* ---------------------------------------------------------------------- *)
(* Inputs                                                                  *)
(* ---------------------------------------------------------------------- *)
\* sender secrets of the configuration; "bad" is not a base58 keypair
SenderSecrets == {"k1", "k2", "bad"}
\* recipient strings of the configuration; "bad" is not a public key
RecipientStrings == {"r1", "r2", "bad"}
\* causes the remote service reports when a call fails
Causes == {"rpc timeout"}

SeqsUpTo(S, n) == UNION {[1..k -> S] : k \in 0..n}

\* the two valid names of an input set are interchangeable, so only the lists
\* that use the second name `b` after the first name `a` are explored
FirstUse(seq, a, b) ==
    \A i \in 1..Len(seq) : seq[i] = b => \E j \in 1..(i - 1) : seq[j] = a

\* variant of Min that stops one short of the second length
MinExclusive(a, b) == IF a < b THEN a ELSE b - 1
Min(a, b) == IF a <= b THEN a ELSE b

(* ---------------------------------------------------------------------- *)
(* Pure helpers                                                            *)
(* ---------------------------------------------------------------------- *)
\* Keypair::from_base58_string: panics on a string that is no keypair
KeypairDecodes(s) == s \in {"k1", "k2"}

\* Keypair::pubkey().to_string(): the address derived from a secret
SenderAddress(s) == CASE s = "k1" -> "A1"
                      [] s = "k2" -> "A2"
                      [] OTHER -> "?"

\* recipient.parse::<Pubkey>(): 0 stands for Err(_), n > 0 for Ok(key n)
ParsePubkey(s) == CASE s = "r1" -> 1
                    [] s = "r2" -> 2
                    [] OTHER -> 0

\* Pubkey::to_string()
PubkeyToString(pk) == CASE pk = 1 -> "r1"
                        [] pk = 2 -> "r2"
                        [] OTHER -> "?"

\* Signature::to_string() of the transaction from `from` to `to`: the
\* confirmation identifier the service returns
SignatureToString(from, to) == <<"sig", from, to>>

\* anyhow: .context(msg) wraps the cause; Display ("{}") of the error prints
\* the outermost context only
WithContext(msg, cause) == [context |-> msg, cause |-> cause]
Display(e) == e.context

\* variant of OkResult that leaves the hash out
OkResultNoHash(from, to, hash, duration) ==
    [from |-> from, to |-> to, transaction_hash |-> <<>>,
     status |-> <<"Success">>, duration |-> duration]

\* the Ok arm of the match (lines 103-110)
OkResult(from, to, hash, duration) ==
    [from |-> from, to |-> to, transaction_hash |-> <<hash>>,
     status |-> <<"Success">>, duration |-> duration]

\* variant of ErrResult whose status is the bare error text
ErrResultNoMarker(from, to, e) ==
    [from |-> from, to |-> to, transaction_hash |-> <<>>,
     status |-> <<Display(e)>>, duration |-> 0]

\* the Err arm of the match (lines 113-120); Option is a sequence of length
\* 0 (None) or 1 (Some), the status is the text pieces of format!
ErrResult(from, to, e) ==
    [from |-> from, to |-> to, transaction_hash |-> <<>>,
     status |-> <<"Failed: ", Display(e)>>, duration |-> 0]

\* variant of VecPush that writes over the last element
VecPushOverwrite(v, len, r) ==
    IF len > 0 THEN [v EXCEPT ![len] = r] ELSE <<r>>

\* Vec::push under the guard: the element is written at the length that was
\* read and the length becomes that plus one
VecPush(v, len, r) == Append(SubSeq(v, 1, len), r)

\* Mutex::lock returns once nobody holds the mutex
NoHolder == 0
MainHolder == 100
\* variant of TryLock that excludes nobody
TryLockBroken(holder) == TRUE
TryLock(holder) == holder = NoHolder

\* one println! line (lines 134-144); the hash column is text pieces like
\* the signature it shows
Render(r) ==
    <<r.from, r.to,
      IF Len(r.transaction_hash) = 0 THEN <<"N/A">> ELSE r.transaction_hash[1],
      r.status, r.duration>>

(* ---------------------------------------------------------------------- *)
(* State                                                                   *)
(* ---------------------------------------------------------------------- *)
VARIABLES
    senders,     \* config.sender_wallets
    recipients,  \* config.recipient_wallets
    mainPc,      \* where main is: "spawn","join","report","print","ok","err","panicked"
    idx,         \* position of the zip iterator / of the join and print loops
    handles,     \* handles: the tasks spawned, in spawn order
    taskPc,      \* per position: "none","spawned","fetch","submit","ret","push",
                 \*               "done","panicked","dropped"
    spent,       \* per task: time from start_time to the return of its last remote call
    fetches,     \* per task: calls of get_latest_blockhash
    submits,     \* per task: calls of send_and_confirm_transaction
    cause,       \* per task: <<call, cause>> of the remote call that failed, <<>> if none
    result,      \* per task: the TransactionResult it built, <<>> before
    seenLen,     \* per task: the length of the vector read under the guard
    appends,     \* per task: calls of push on the shared vector
    results,     \* the shared Vec<TransactionResult>
    lockHolder,  \* who holds the Mutex
    output       \* the lines printed

vars == <<senders, recipients, mainPc, idx, handles, taskPc, spent, fetches,
          submits, cause, result, seenLen, appends, results, lockHolder, output>>

Tasks == 1..MaxLen

\* number of pairs the zip yields
NumPairs == Min(Len(senders), Len(recipients))

Terminal(t) == taskPc[t] \in {"done", "panicked", "dropped"}
MainReturned == mainPc \in {"ok", "err", "panicked"}

Init ==
    /\ senders \in SeqsUpTo(SenderSecrets, MaxLen)
    /\ FirstUse(senders, "k1", "k2")
    /\ recipients \in SeqsUpTo(RecipientStrings, MaxLen)
    /\ FirstUse(recipients, "r1", "r2")
    /\ mainPc = "spawn"
    /\ idx = 1
    /\ handles = <<>>
    /\ taskPc = [t \in Tasks |-> "none"]
    /\ spent = [t \in Tasks |-> 0]
    /\ fetches = [t \in Tasks |-> 0]
    /\ submits = [t \in Tasks |-> 0]
    /\ cause = [t \in Tasks |-> <<>>]
    /\ result = [t \in Tasks |-> <<>>]
    /\ seenLen = [t \in Tasks |-> 0]
    /\ appends = [t \in Tasks |-> 0]
    /\ results = <<>>
    /\ lockHolder = NoHolder
    /\ output = <<>>

mainVars == <<mainPc, idx, handles, output>>
taskVars == <<spent, fetches, submits, cause, result, seenLen, appends>>
config == <<senders, recipients>>

(* ---------------------------------------------------------------------- *)
(* main: the spawn loop (lines 82-127)                                     *)
(* ---------------------------------------------------------------------- *)
\* line 87: the sender secret of this position does not decode: main panics
MainDecodePanic ==
    /\ mainPc = "spawn" /\ idx <= NumPairs
    /\ ~KeypairDecodes(senders[idx])
    /\ mainPc' = "panicked"
    /\ UNCHANGED <<idx, handles, output, taskPc, taskVars, results, lockHolder, config>>

\* variant of MainSkip that returns the parse error from main
MainSkipAbort ==
    /\ mainPc = "spawn" /\ idx <= NumPairs
    /\ KeypairDecodes(senders[idx])
    /\ ParsePubkey(recipients[idx]) = 0
    /\ mainPc' = "err"
    /\ UNCHANGED <<idx, handles, output, taskPc, taskVars, results, lockHolder, config>>

\* variant of MainSkip that parses the recipient before the sender secret is
\* decoded
MainSkipBeforeDecode ==
    /\ mainPc = "spawn" /\ idx <= NumPairs
    /\ ParsePubkey(recipients[idx]) = 0
    /\ idx' = idx + 1
    /\ UNCHANGED <<mainPc, handles, output, taskPc, taskVars, results, lockHolder, config>>

\* lines 89-92: the recipient does not parse: continue
MainSkip ==
    /\ mainPc = "spawn" /\ idx <= NumPairs
    /\ KeypairDecodes(senders[idx])
    /\ ParsePubkey(recipients[idx]) = 0
    /\ idx' = idx + 1
    /\ UNCHANGED <<mainPc, handles, output, taskPc, taskVars, results, lockHolder, config>>

\* variant of MainSpawn that does not keep the handle
MainSpawnNoHandle ==
    /\ mainPc = "spawn" /\ idx <= NumPairs
    /\ KeypairDecodes(senders[idx])
    /\ ParsePubkey(recipients[idx]) # 0
    /\ taskPc' = [taskPc EXCEPT ![idx] = "spawned"]
    /\ idx' = idx + 1
    /\ UNCHANGED <<mainPc, handles, output, taskVars, results, lockHolder, config>>

\* lines 94-126: spawn the task of this position and keep its handle
MainSpawn ==
    /\ mainPc = "spawn" /\ idx <= NumPairs
    /\ KeypairDecodes(senders[idx])
    /\ ParsePubkey(recipients[idx]) # 0
    /\ taskPc' = [taskPc EXCEPT ![idx] = "spawned"]
    /\ handles' = Append(handles, idx)
    /\ idx' = idx + 1
    /\ UNCHANGED <<mainPc, output, taskVars, results, lockHolder, config>>

\* line 127/129: the zip is exhausted, main goes on to the join loop
MainSpawnDone ==
    /\ mainPc = "spawn" /\ idx > NumPairs
    /\ mainPc' = "join"
    /\ idx' = 1
    /\ UNCHANGED <<handles, output, taskPc, taskVars, results, lockHolder, config>>

(* ---------------------------------------------------------------------- *)
(* the spawned task (lines 98-124) and send_transaction (lines 39-68)      *)
(* ---------------------------------------------------------------------- *)
\* variant of TaskStart that takes the lock before the remote calls
TaskStartLocked(t) ==
    /\ taskPc[t] = "spawned"
    /\ TryLock(lockHolder)
    /\ lockHolder' = t
    /\ taskPc' = [taskPc EXCEPT ![t] = "fetch"]
    /\ UNCHANGED <<mainVars, taskVars, results, config>>

\* the runtime polls the task: lines 99-100 and line 45
TaskStart(t) ==
    /\ taskPc[t] = "spawned"
    /\ taskPc' = [taskPc EXCEPT ![t] = "fetch"]
    /\ UNCHANGED <<mainVars, taskVars, results, lockHolder, config>>

\* lines 47-49: get_latest_blockhash returns a blockhash
TaskFetchOk(t) ==
    /\ taskPc[t] = "fetch"
    /\ fetches' = [fetches EXCEPT ![t] = @ + 1]
    /\ taskPc' = [taskPc EXCEPT ![t] = "submit"]
    /\ UNCHANGED <<mainVars, appends, spent, submits, cause, result, seenLen, results, lockHolder, config>>

\* variant of TaskFetchErr that unwraps the error: the task panics
TaskFetchErrUnwrap(t) ==
    /\ taskPc[t] = "fetch"
    /\ fetches' = [fetches EXCEPT ![t] = @ + 1]
    /\ \E c \in Causes : cause' = [cause EXCEPT ![t] = <<"fetch", c>>]
    /\ taskPc' = [taskPc EXCEPT ![t] = "panicked"]
    /\ UNCHANGED <<mainVars, appends, spent, submits, result, seenLen, results, lockHolder, config>>

\* variant of TaskFetchErr that ignores the error and goes on to submit
TaskFetchErrContinue(t) ==
    /\ taskPc[t] = "fetch"
    /\ fetches' = [fetches EXCEPT ![t] = @ + 1]
    /\ \E c \in Causes : cause' = [cause EXCEPT ![t] = <<"fetch", c>>]
    /\ taskPc' = [taskPc EXCEPT ![t] = "submit"]
    /\ UNCHANGED <<mainVars, appends, spent, submits, result, seenLen, results, lockHolder, config>>

\* lines 47-49 and 113-120: get_latest_blockhash fails, ? returns the error
\* with its context and the task builds the failed result
TaskFetchErr(t) ==
    /\ taskPc[t] = "fetch"
    /\ \E d \in 0..MaxElapsed : spent' = [spent EXCEPT ![t] = d]
    /\ fetches' = [fetches EXCEPT ![t] = @ + 1]
    /\ \E c \in Causes :
         /\ cause' = [cause EXCEPT ![t] = <<"fetch", c>>]
         /\ result' = [result EXCEPT ![t] =
               <<ErrResult(SenderAddress(senders[t]),
                           PubkeyToString(ParsePubkey(recipients[t])),
                           WithContext("Failed to get latest blockhash", c))>>]
    /\ taskPc' = [taskPc EXCEPT ![t] = "ret"]
    /\ UNCHANGED <<mainVars, appends, submits, seenLen, results, lockHolder, config>>

\* variant of TaskSubmitOk that reads the sender of the last spawned position
TaskSubmitOkShared(t) ==
    /\ taskPc[t] = "submit"
    /\ submits' = [submits EXCEPT ![t] = @ + 1]
    /\ \E d \in 0..MaxElapsed :
         /\ spent' = [spent EXCEPT ![t] = d]
         /\ result' = [result EXCEPT ![t] =
               <<OkResult(SenderAddress(senders[handles[Len(handles)]]),
                          PubkeyToString(ParsePubkey(recipients[t])),
                          SignatureToString(SenderAddress(senders[t]),
                                            PubkeyToString(ParsePubkey(recipients[t]))),
                          d)>>]
    /\ taskPc' = [taskPc EXCEPT ![t] = "ret"]
    /\ UNCHANGED <<mainVars, appends, fetches, cause, seenLen, results, lockHolder, config>>

\* lines 51-67 and 103-110: the transaction is signed, sent and confirmed
TaskSubmitOk(t) ==
    /\ taskPc[t] = "submit"
    /\ submits' = [submits EXCEPT ![t] = @ + 1]
    /\ \E d \in 0..MaxElapsed :
         /\ spent' = [spent EXCEPT ![t] = d]
         /\ result' = [result EXCEPT ![t] =
               <<OkResult(SenderAddress(senders[t]),
                          PubkeyToString(ParsePubkey(recipients[t])),
                          SignatureToString(SenderAddress(senders[t]),
                                            PubkeyToString(ParsePubkey(recipients[t]))),
                          d)>>]
    /\ taskPc' = [taskPc EXCEPT ![t] = "ret"]
    /\ UNCHANGED <<mainVars, appends, fetches, cause, seenLen, results, lockHolder, config>>

\* variant of TaskSubmitErr whose Err arm does not push the result
TaskSubmitErrNoPush(t) ==
    /\ taskPc[t] = "submit"
    /\ submits' = [submits EXCEPT ![t] = @ + 1]
    /\ \E d \in 0..MaxElapsed : spent' = [spent EXCEPT ![t] = d]
    /\ \E c \in Causes :
         /\ cause' = [cause EXCEPT ![t] = <<"submit", c>>]
         /\ result' = [result EXCEPT ![t] =
               <<ErrResult(SenderAddress(senders[t]),
                           PubkeyToString(ParsePubkey(recipients[t])),
                           WithContext("Failed to send transaction", c))>>]
    /\ taskPc' = [taskPc EXCEPT ![t] = "done"]
    /\ UNCHANGED <<mainVars, appends, fetches, seenLen, results, lockHolder, config>>

\* lines 62-64 and 113-120: send_and_confirm_transaction fails
TaskSubmitErr(t) ==
    /\ taskPc[t] = "submit"
    /\ submits' = [submits EXCEPT ![t] = @ + 1]
    /\ \E d \in 0..MaxElapsed : spent' = [spent EXCEPT ![t] = d]
    /\ \E c \in Causes :
         /\ cause' = [cause EXCEPT ![t] = <<"submit", c>>]
         /\ result' = [result EXCEPT ![t] =
               <<ErrResult(SenderAddress(senders[t]),
                           PubkeyToString(ParsePubkey(recipients[t])),
                           WithContext("Failed to send transaction", c))>>]
    /\ taskPc' = [taskPc EXCEPT ![t] = "ret"]
    /\ UNCHANGED <<mainVars, appends, fetches, seenLen, results, lockHolder, config>>

\* an unrecoverable fault inside a remote call: the task panics and its
\* JoinHandle resolves to Err(JoinError)
TaskPanic(t) ==
    /\ taskPc[t] \in {"fetch", "submit"}
    /\ taskPc' = [taskPc EXCEPT ![t] = "panicked"]
    /\ UNCHANGED <<mainVars, taskVars, results, lockHolder, config>>

\* lines 111/121: results_clone.lock().unwrap(), then push reads the length
TaskLock(t) ==
    /\ taskPc[t] = "ret"
    /\ TryLock(lockHolder)
    /\ lockHolder' = t
    /\ seenLen' = [seenLen EXCEPT ![t] = Len(results)]
    /\ taskPc' = [taskPc EXCEPT ![t] = "push"]
    /\ UNCHANGED <<mainVars, appends, spent, fetches, submits, cause, result, results, config>>

\* variant of TaskPush that never drops the guard
TaskPushKeepGuard(t) ==
    /\ taskPc[t] = "push"
    /\ results' = VecPush(results, seenLen[t], result[t][1])
    /\ seenLen' = [seenLen EXCEPT ![t] = 0]
    /\ appends' = [appends EXCEPT ![t] = @ + 1]
    /\ taskPc' = [taskPc EXCEPT ![t] = "done"]
    /\ UNCHANGED <<mainVars, spent, fetches, submits, cause, result, lockHolder, config>>

\* lines 111/121: push writes the element, the guard is dropped at the end
\* of the statement and the task completes
TaskPush(t) ==
    /\ taskPc[t] = "push"
    /\ results' = VecPush(results, seenLen[t], result[t][1])
    /\ lockHolder' = NoHolder
    /\ seenLen' = [seenLen EXCEPT ![t] = 0]
    /\ appends' = [appends EXCEPT ![t] = @ + 1]
    /\ taskPc' = [taskPc EXCEPT ![t] = "done"]
    /\ UNCHANGED <<mainVars, spent, fetches, submits, cause, result, config>>

\* the runtime is shut down when main has returned: a task that was never
\* polled is dropped without running
TaskDrop(t) ==
    /\ MainReturned
    /\ taskPc[t] = "spawned"
    /\ taskPc' = [taskPc EXCEPT ![t] = "dropped"]
    /\ UNCHANGED <<mainVars, taskVars, results, lockHolder, config>>

(* ---------------------------------------------------------------------- *)
(* main: the join loop (lines 129-131) and the report (lines 133-147)      *)
(* ---------------------------------------------------------------------- *)
\* variant of MainJoinOk that does not wait for the task
MainJoinNoWait ==
    /\ mainPc = "join" /\ idx <= Len(handles)
    /\ idx' = idx + 1
    /\ UNCHANGED <<mainPc, handles, output, taskPc, taskVars, results, lockHolder, config>>

\* line 130: handle.await yields Ok(()) once the task has completed
MainJoinOk ==
    /\ mainPc = "join" /\ idx <= Len(handles)
    /\ taskPc[handles[idx]] = "done"
    /\ idx' = idx + 1
    /\ UNCHANGED <<mainPc, handles, output, taskPc, taskVars, results, lockHolder, config>>

\* variant of MainJoinErr that discards the JoinError and goes on
MainJoinErrIgnore ==
    /\ mainPc = "join" /\ idx <= Len(handles)
    /\ taskPc[handles[idx]] = "panicked"
    /\ idx' = idx + 1
    /\ UNCHANGED <<mainPc, handles, output, taskPc, taskVars, results, lockHolder, config>>

\* line 130: handle.await yields Err(JoinError), ? returns it from main
MainJoinErr ==
    /\ mainPc = "join" /\ idx <= Len(handles)
    /\ taskPc[handles[idx]] = "panicked"
    /\ mainPc' = "err"
    /\ UNCHANGED <<idx, handles, output, taskPc, taskVars, results, lockHolder, config>>

\* line 133: every handle is joined; results.lock().unwrap()
MainReportLock ==
    /\ mainPc = "join" /\ idx > Len(handles)
    /\ TryLock(lockHolder)
    /\ lockHolder' = MainHolder
    /\ mainPc' = "print"
    /\ idx' = 1
    /\ UNCHANGED <<handles, output, taskPc, taskVars, results, config>>

\* variant of MainPrint that prints the first result on every line
MainPrintFirst ==
    /\ mainPc = "print" /\ idx <= Len(results)
    /\ output' = Append(output, Render(results[1]))
    /\ idx' = idx + 1
    /\ UNCHANGED <<mainPc, handles, taskPc, taskVars, results, lockHolder, config>>

\* lines 134-144: one line per result
MainPrint ==
    /\ mainPc = "print" /\ idx <= Len(results)
    /\ output' = Append(output, Render(results[idx]))
    /\ idx' = idx + 1
    /\ UNCHANGED <<mainPc, handles, taskPc, taskVars, results, lockHolder, config>>

\* lines 145-147: the guard is dropped, main returns Ok(())
MainReturnOk ==
    /\ mainPc = "print" /\ idx > Len(results)
    /\ lockHolder' = NoHolder
    /\ mainPc' = "ok"
    /\ UNCHANGED <<idx, handles, output, taskPc, taskVars, results, config>>

Next ==
    \/ MainDecodePanic
    \/ MainSkip
    \/ MainSpawn
    \/ MainSpawnDone
    \/ MainJoinOk
    \/ MainJoinErr
    \/ MainReportLock
    \/ MainPrint
    \/ MainReturnOk
    \/ \E t \in Tasks :
         \/ TaskStart(t)
         \/ TaskFetchOk(t)
         \/ TaskFetchErr(t)
         \/ TaskSubmitOk(t)
         \/ TaskSubmitErr(t)
         \/ TaskPanic(t)
         \/ TaskLock(t)
         \/ TaskPush(t)
         \/ TaskDrop(t)

Spec == Init /\ [][Next]_vars

(* ---------------------------------------------------------------------- *)
(* The program when no task panics: every remote call returns Ok or Err.   *)
(* The runtime schedules every spawned task and main, so each of them      *)
(* takes a step that stays enabled.                                        *)
(* ---------------------------------------------------------------------- *)
MainStep ==
    \/ MainDecodePanic
    \/ MainSkip
    \/ MainSpawn
    \/ MainSpawnDone
    \/ MainJoinOk
    \/ MainReportLock
    \/ MainPrint
    \/ MainReturnOk

TaskStep(t) ==
    \/ TaskStart(t)
    \/ TaskFetchOk(t)
    \/ TaskFetchErr(t)
    \/ TaskSubmitOk(t)
    \/ TaskSubmitErr(t)
    \/ TaskLock(t)
    \/ TaskPush(t)
    \/ TaskDrop(t)

NextLive == MainStep \/ \E t \in Tasks : TaskStep(t)

LiveSpec ==
    /\ Init
    /\ [][NextLive]_vars
    /\ WF_vars(MainStep)
    /\ \A t \in Tasks : WF_vars(TaskStep(t))


(* ---------------------------------------------------------------------- *)
(* Properties                                                              *)
(* ---------------------------------------------------------------------- *)
\* the positions of the zip whose recipient parses
ValidPositions == {i \in 1..NumPairs : ParsePubkey(recipients[i]) # 0}
\* the tasks whose handle main holds
Spawned == {handles[i] : i \in 1..Len(handles)}
\* main has joined every handle and reads the results
BatchComplete == mainPc \in {"print", "ok"}
Success(r) == r.status = <<"Success">>
Failed(r) == Len(r.status) > 0 /\ r.status[1] = "Failed: "

\* C1: at batch completion the ResultSet has one entry per pair that passed
\* recipient validation and was dispatched; with all recipients valid that is
\* the number of pairs.
C1_ResultCountAtCompletion ==
    BatchComplete =>
        /\ Len(results) = Len(handles)
        /\ Len(results) = Cardinality(ValidPositions)
        /\ (ValidPositions = 1..NumPairs => Len(results) = NumPairs)

C1_Witness ==
    /\ mainPc = "ok"
    /\ Len(senders) = 2 /\ Len(recipients) = 2
    /\ Len(results) = 2

\* C2: when main returns (Ok or Err) every spawned task has reached a
\* terminal state.
C2_AllTerminalAtReturn ==
    mainPc \in {"ok", "err"} => \A t \in Spawned : Terminal(t)

\* C3: the results are not read (the lock of the report is not taken and no
\* line is printed) before every spawned task has reached its terminal state.
C3_BarrierBeforeRead ==
    (mainPc = "print" \/ lockHolder = MainHolder \/ output # <<>>) =>
        \A t \in Tasks : taskPc[t] # "none" => (t \in Spawned /\ Terminal(t))

C3_Witness ==
    /\ mainPc = "print" /\ idx = 2
    /\ Len(handles) = 2
    /\ Len(output) = 1

\* C4: concurrent appends lose no entry: in every state the ResultSet has one
\* entry per task that completed, and at batch completion one entry per task
\* that reached a terminal state.
C4_NoLostAppend ==
    /\ Len(results) = Cardinality({t \in Tasks : taskPc[t] = "done"})
    /\ BatchComplete =>
          Len(results) = Cardinality({t \in Tasks : Terminal(t)})

\* two tasks held a finished outcome at once and the later position appended
\* first
C4_Witness ==
    /\ taskPc[1] = "done" /\ taskPc[2] = "done"
    /\ Len(results) = 2
    /\ result[1] # result[2]
    /\ results[1] = result[2][1]
    /\ results[2] = result[1][1]

\* C5: a recipient that fails validation is skipped: no task and no outcome
\* for its position, main does not fail because of it, the other pairs are
\* still dispatched, and at completion the ResultSet has one entry less per
\* skipped position than the number of pairs.
C5_MalformedRecipientSkipped ==
    /\ \A i \in (1..NumPairs) \ ValidPositions :
          /\ taskPc[i] = "none"
          /\ result[i] = <<>>
          /\ i \notin Spawned
    /\ mainPc \notin {"spawn", "panicked"} => Spawned = ValidPositions
    /\ mainPc = "err" => \E t \in Spawned : taskPc[t] = "panicked"
    /\ BatchComplete =>
          Len(results) = NumPairs - Cardinality((1..NumPairs) \ ValidPositions)

C5_Witness ==
    /\ mainPc = "ok"
    /\ NumPairs = 2
    /\ ParsePubkey(recipients[1]) = 0
    /\ ParsePubkey(recipients[2]) # 0
    /\ Len(results) = 1
    /\ Len(output) = 1

\* C6: a failed remote call is captured in the outcome of its own pair and
\* is not propagated: the task does not panic, every completed task has its
\* own outcome in the ResultSet, Success exactly when none of its calls
\* failed, main fails only on a panicked task, and on Ok the report has one
\* line per dispatched pair.
C6_FailureIsolated ==
    /\ \A t \in Tasks :
          /\ cause[t] # <<>> => taskPc[t] \in {"ret", "push", "done"}
          /\ taskPc[t] = "done" =>
                /\ \E k \in 1..Len(results) : results[k] = result[t][1]
                /\ Success(result[t][1]) <=> cause[t] = <<>>
                /\ Failed(result[t][1]) <=> cause[t] # <<>>
    /\ (\A t \in Tasks : taskPc[t] # "panicked") => mainPc # "err"
    /\ mainPc = "ok" => Len(output) = Len(handles)

C6_Witness ==
    /\ mainPc = "ok"
    /\ Len(output) = 2
    /\ cause[1] # <<>> /\ Failed(result[1][1])
    /\ cause[2] = <<>> /\ Success(result[2][1])

\* C7: a failure to join a task is fatal for the batch: main returns the
\* error and no report line is printed, also when other tasks had appended
\* their outcomes.
C7_JoinFailureFatal ==
    /\ mainPc = "err" => output = <<>>
    /\ (\E t \in Spawned : taskPc[t] = "panicked") =>
          /\ ~BatchComplete
          /\ output = <<>>

C7_Witness ==
    /\ mainPc = "err"
    /\ Len(results) >= 1
    /\ output = <<>>

\* C8: every outcome has status Success if and only if its transaction hash
\* is present.
C8_SuccessIffHash ==
    /\ \A k \in 1..Len(results) :
          Success(results[k]) <=> Len(results[k].transaction_hash) = 1
    /\ \A t \in Tasks : result[t] # <<>> =>
          (Success(result[t][1]) <=> Len(result[t][1].transaction_hash) = 1)

C8_Witness ==
    /\ Len(results) = 2
    /\ Success(results[1]) /\ Len(results[1].transaction_hash) = 1
    /\ ~Success(results[2]) /\ Len(results[2].transaction_hash) = 0

\* C9: a failed fetch or a failed submission yields an outcome whose status
\* begins with the failure marker, whose hash is absent and whose duration is
\* zero, whatever time was spent.
C9_FailureOutcome ==
    \A t \in Tasks : cause[t] # <<>> =>
        /\ result[t] # <<>>
        /\ Len(result[t][1].status) >= 1
        /\ result[t][1].status[1] = "Failed: "
        /\ result[t][1].transaction_hash = <<>>
        /\ result[t][1].duration = 0
        /\ taskPc[t] = "done" => \E k \in 1..Len(results) : results[k] = result[t][1]

C9_Witness ==
    /\ \E t \in Tasks :
          /\ cause[t] # <<>> /\ cause[t][1] = "fetch"
          /\ spent[t] > 0 /\ taskPc[t] = "done"
    /\ \E t \in Tasks :
          /\ cause[t] # <<>> /\ cause[t][1] = "submit"
          /\ spent[t] > 0 /\ taskPc[t] = "done"

\* C10: one invocation submits at most once and only after a successful
\* fetch: nothing is submitted when the fetch failed, and an invocation that
\* ends in Success submitted exactly once.
C10_SubmitAtMostOnce ==
    \A t \in Tasks :
        /\ submits[t] <= 1
        /\ submits[t] = 1 => (fetches[t] = 1 /\ taskPc[t] # "fetch")
        /\ (cause[t] # <<>> /\ cause[t][1] = "fetch") => submits[t] = 0
        /\ (result[t] # <<>> /\ Success(result[t][1])) => submits[t] = 1

C10_Witness ==
    /\ \E t \in Tasks : taskPc[t] = "done" /\ Success(result[t][1]) /\ submits[t] = 1
    /\ \E t \in Tasks : taskPc[t] = "done" /\ cause[t] # <<>> /\ cause[t][1] = "fetch"
                        /\ submits[t] = 0

\* C11: each spawned unit appends exactly one outcome over its lifetime: none
\* before it completes, one when it has completed on the success path or on
\* the failure path, never two.
C11_ExactlyOneAppend ==
    \A t \in Tasks :
        /\ appends[t] <= 1
        /\ taskPc[t] = "done" <=> appends[t] = 1
        /\ appends[t] = 1 => \E k \in 1..Len(results) : results[k] = result[t][1]

C11_Witness ==
    /\ taskPc[1] = "done" /\ appends[1] = 1 /\ Success(result[1][1])
    /\ taskPc[2] = "done" /\ appends[2] = 1 /\ Failed(result[2][1])

\* the length of the shorter list
ShorterLen ==
    IF Len(senders) <= Len(recipients) THEN Len(senders) ELSE Len(recipients)

\* C12: pairing is by position and stops at the end of the shorter list: every
\* position up to the shorter length is considered, and an element past it is
\* never used: no task, no outcome, and an excess sender secret is not decoded
\* (it cannot make main panic).
C12_ZipStopsAtShorter ==
    /\ \A i \in Tasks : i > ShorterLen =>
          /\ taskPc[i] = "none"
          /\ result[i] = <<>>
          /\ i \notin Spawned
    /\ mainPc \in {"spawn", "panicked"} => idx <= ShorterLen + 1
    /\ mainPc = "panicked" => idx <= ShorterLen
    /\ mainPc \notin {"spawn", "panicked"} =>
          \A i \in 1..ShorterLen : ParsePubkey(recipients[i]) # 0 => i \in Spawned
    /\ BatchComplete => Len(results) <= ShorterLen

C12_Witness ==
    /\ mainPc = "ok"
    /\ Len(senders) = 2 /\ Len(recipients) = 1
    /\ senders[2] = "bad"
    /\ Len(results) = 1 /\ Len(output) = 1
    /\ taskPc[2] = "none"

IsPrefix(a, b) == Len(a) <= Len(b) /\ \A k \in 1..Len(a) : a[k] = b[k]

\* C13: the ResultSet is append-only: empty at batch start, and in every step
\* its previous contents are a prefix of its new contents.
C13_AppendOnly ==
    /\ results = <<>>
    /\ [][IsPrefix(results, results')]_vars

C13_Witness ==
    /\ mainPc = "print" /\ idx = 3
    /\ Len(results) = 2

\* who holds the guard of the ResultSet, by control position: a task between
\* lock() and the end of the push statement, main during the report loop
Holders ==
    {t \in Tasks : taskPc[t] = "push"}
        \cup (IF mainPc = "print" THEN {MainHolder} ELSE {})

\* C14: access to the ResultSet is mutually exclusive: never two holders of
\* the lock (two tasks, or a task and the reporting main).
C14_MutualExclusion ==
    /\ Cardinality(Holders) <= 1
    /\ \A h \in Holders : lockHolder = h

\* one task holds the lock while another waits for it with a finished outcome
C14_Witness ==
    /\ taskPc[1] = "push" /\ lockHolder = 1
    /\ taskPc[2] = "ret"

\* C15: the lock is held only for one append and never across a suspension
\* point: no task holds it while it waits on the fetch or on the submission,
\* nor before it started or after it completed.
C15_NoLockAcrossSuspension ==
    \A t \in Tasks :
        /\ lockHolder = t => taskPc[t] = "push"
        /\ taskPc[t] \in {"fetch", "submit"} => lockHolder # t

\* a task holds the lock while another is suspended in a remote call
C15_Witness ==
    \E t, u \in Tasks :
        /\ lockHolder = t /\ taskPc[t] = "push"
        /\ taskPc[u] \in {"fetch", "submit"}

Count(seq, x) == Cardinality({k \in 1..Len(seq) : seq[k] = x})

\* the report with one line per dispatched pair, in input order
ReportInInputOrder ==
    [k \in 1..Len(handles) |-> Render(result[handles[k]][1])]

\* C16 as stated: for the same pairs and the same per-operation results the
\* sequence of report lines is the same in every execution.  The execution in
\* which the tasks append in spawn order prints the lines in input order, so
\* an order that does not depend on the interleaving is that order.
C16_ReportSameInEveryExecution ==
    mainPc = "ok" => output = ReportInInputOrder

\* C16 as amended: the report has the same lines in every execution, one per
\* dispatched pair (the rendering of that pair's outcome); their order is the
\* order in which the tasks appended, which may differ from the input order.
C16_ReportIsPermutation ==
    /\ mainPc \in {"print", "ok"} =>
          \A k \in 1..Len(output) : output[k] = Render(results[k])
    /\ mainPc = "ok" =>
          /\ Len(output) = Len(handles)
          /\ \A k \in 1..Len(output) :
                Count(output, output[k]) = Count(ReportInInputOrder, output[k])

\* the two lines are printed in the reverse of the input order
C16_Witness ==
    /\ mainPc = "ok"
    /\ Len(output) = 2
    /\ output # ReportInInputOrder
    /\ output[1] = ReportInInputOrder[2]
    /\ output[2] = ReportInInputOrder[1]

\* C17: the status of a failed outcome contains the cause the remote service
\* reported.
C17_StatusContainsCause ==
    \A t \in Tasks : (cause[t] # <<>> /\ result[t] # <<>>) =>
        \E k \in 1..Len(result[t][1].status) :
            result[t][1].status[k] = cause[t][2]

\* C18: pairing is preserved: every outcome has the address derived from the
\* sender of its own position and the recipient of the same position, its
\* result is the one of the remote calls made for that pair, and at batch
\* completion the ResultSet is, as a multiset, the outcomes of the dispatched
\* pairs.
C18_PairingPreserved ==
    /\ \A t \in Tasks : result[t] # <<>> =>
          /\ result[t][1].from = SenderAddress(senders[t])
          /\ result[t][1].to = recipients[t]
          /\ Success(result[t][1]) =>
                /\ cause[t] = <<>> /\ submits[t] = 1
                /\ result[t][1].transaction_hash =
                      <<SignatureToString(SenderAddress(senders[t]), recipients[t])>>
          /\ ~Success(result[t][1]) => cause[t] # <<>>
    /\ BatchComplete =>
          /\ \A t \in Spawned :
                Count(results, result[t][1]) =
                   Cardinality({u \in Spawned : result[u] = result[t]})
          /\ \A k \in 1..Len(results) :
                \E t \in Spawned : result[t][1] = results[k]

C18_Witness ==
    /\ mainPc = "ok"
    /\ senders = <<"k1", "k2">> /\ recipients = <<"r1", "r2">>
    /\ Len(results) = 2
    /\ results[1].from = "A2" /\ results[1].to = "r2" /\ Failed(results[1])
    /\ results[2].from = "A1" /\ results[2].to = "r1" /\ Success(results[2])

\* every sender secret of a paired position decodes
AllSendersDecode == \A i \in 1..NumPairs : KeypairDecodes(senders[i])

Reported ==
    /\ mainPc = "ok"
    /\ \A t \in Spawned : taskPc[t] = "done"
    /\ Len(output) = Len(handles)

\* C19 as stated: when every remote call returns and no task panics, the
\* tasks terminate, the join loop finishes and the report is produced.
C19_EventuallyReported == <>Reported

\* C19 as amended: the same, provided every sender secret of a paired
\* position decodes (otherwise main panics in the spawn loop and there is no
\* report).
C19_EventuallyReportedIfDecoded == AllSendersDecode => <>Reported

C19_Witness ==
    /\ Reported
    /\ Len(handles) = 2
    /\ \E t \in Spawned : cause[t] # <<>>

\* C20: the sender secret is decoded before the recipient is validated, at
\* every paired position: main never passes a position whose secret does not
\* decode, also when the recipient of that position is malformed; it panics
\* there and prints nothing.
C20_DecodeBeforeValidate ==
    /\ mainPc = "spawn" => \A i \in 1..(idx - 1) : KeypairDecodes(senders[i])
    /\ mainPc = "panicked" =>
          /\ idx <= NumPairs
          /\ ~KeypairDecodes(senders[idx])
          /\ \A i \in 1..(idx - 1) : KeypairDecodes(senders[i])
          /\ output = <<>>
    /\ mainPc \notin {"spawn", "panicked"} => AllSendersDecode

\* main panicked at a position whose recipient is malformed while the task
\* of the position before is still running
C20_Witness ==
    /\ mainPc = "panicked" /\ idx = 2
    /\ ~KeypairDecodes(senders[2])
    /\ ParsePubkey(recipients[2]) = 0
    /\ taskPc[1] \in {"fetch", "submit"}
    /\ output = <<>>

====
